---- MODULE Spec2Model ----
(***************************************************************************)
(* Model of the e-paper picture frame: the Frame Loop (PictureFrame in     *)
(* src/src/picture_frame.py) driving the Display Adapter                   *)
(* (DisplayController in src/src/display_controller.py).                   *)
(*                                                                         *)
(* Spec is the whole program as started by main().  SpecDisplay is the     *)
(* DisplayController class used through its public methods in any order,   *)
(* as any client may call them.  SpecSteady is the program in an           *)
(* environment that does not change.  SpecTransform and SpecListing apply  *)
(* ImageProcessor.process_image and utils.get_image_files to chosen        *)
(* inputs.                                                                 *)
(***************************************************************************)
EXTENDS Integers, Sequences, FiniteSets, TLC

VARIABLES
    DISPLAY_AVAILABLE,   \* display_controller.py: module flag set by the import
    config_exists,       \* main: config_path.exists()
    random_order,        \* PictureFrame.random_order
    sleep_enabled,       \* PictureFrame.sleep_enabled
    full_clear_interval, \* PictureFrame.full_clear_interval
    image_list,          \* PictureFrame.image_list
    current_index,       \* PictureFrame.current_index
    refresh_count,       \* PictureFrame.refresh_count
    display,             \* the DisplayController, its panel and its output files
    pc,                  \* position of the program
    init_result,         \* how PictureFrame.initialize() ended ("none": not run)
    exit_status,         \* status the process exited with (-1: still running)
    cleanup_calls,       \* number of display.cleanup() calls the frame has made
    display_image_calls, \* number of display.display_image() calls the frame has made
    last,                \* what the most recent loop iteration did
    op,                  \* what the most recent DisplayController call did
    transform,           \* an ImageProcessor.process_image call and its result
    listing              \* a utils.get_image_files call and its result

vars == <<DISPLAY_AVAILABLE, config_exists, random_order, sleep_enabled,
          full_clear_interval, image_list,
          current_index, refresh_count, display, pc, init_result,
          exit_status, cleanup_calls, display_image_calls, last, op,
          transform, listing>>

configVars == <<DISPLAY_AVAILABLE, config_exists, random_order, sleep_enabled,
                full_clear_interval>>

frameVars == <<image_list, current_index, refresh_count>>

\* What the calls of the pure functions work on; the frame loop and the
\* display controller leave it alone.
pureVars == <<transform, listing>>

(***************************************************************************)
(* Bounds of the model.                                                    *)
(***************************************************************************)
MaxFiles == 2

MaxRefresh == 2

MaxK == 3

MaxCycles == 3

Files == 1 .. MaxFiles

(***************************************************************************)
(* Sequences: sorted listing of a set, permutations of a sequence.         *)
(***************************************************************************)
RECURSIVE SortedSeq(_)
SortedSeq(S) ==
    IF S = {} THEN <<>>
    ELSE LET m == CHOOSE x \in S : \A y \in S : x <= y
         IN  <<m>> \o SortedSeq(S \ {m})

\* random.shuffle(s): every rearrangement of s.
Shuffles(s) ==
    {[i \in 1 .. Len(s) |-> s[p[i]]] : p \in Permutations(1 .. Len(s))}

(***************************************************************************)
(* Display Adapter.  The controller is the record                          *)
(*   epd            self.epd is not None                                   *)
(*   refresh_count  self.refresh_count                                     *)
(*   power, blank   the panel: its power state and whether it shows white  *)
(*   files          indices of the files written to test_output, in order  *)
(* A driver call named in the set bad raises when it is made and then has  *)
(* no effect on the panel.  Every method returns the controller after the  *)
(* call (d), its return value (ret), whether it raised to its caller       *)
(* (raised) and the driver calls it attempted (log).  A bitmap pushed to a  *)
(* panel that is not awake leaves what the panel shows as it is.           *)
(*                                                                         *)
(* Where a line of the code is modelled by a small operator, the operator  *)
(* defined just before it is that line with a slip in it (the counter not  *)
(* incremented, the calls in the other order, ...); the properties are     *)
(* also run against these to see that they depend on the line.             *)
(***************************************************************************)
HwCalls == {"EPD", "init", "Clear", "display", "sleep", "save"}

NoLog == <<>>

NewDisplay(blank) ==
    [epd |-> FALSE, refresh_count |-> 0, power |-> "unknown",
     blank |-> blank, files |-> <<>>]

\* self.epd.init(0); self.epd.Clear(0xFF) inside a try block
InitClear(d, bad) ==
    IF "init" \in bad
    THEN [d |-> d, ok |-> FALSE, log |-> <<"init">>]
    ELSE IF "Clear" \in bad
    THEN [d |-> [d EXCEPT !.power = "active"], ok |-> FALSE,
          log |-> <<"init", "Clear">>]
    ELSE [d |-> [d EXCEPT !.power = "active", !.blank = TRUE], ok |-> TRUE,
          log |-> <<"init", "Clear">>]

DC_initialize(d, bad) ==
    IF ~DISPLAY_AVAILABLE
    THEN [d |-> d, ret |-> FALSE, raised |-> FALSE, log |-> NoLog]
    ELSE IF "EPD" \in bad
    THEN [d |-> d, ret |-> FALSE, raised |-> FALSE, log |-> <<"EPD">>]
    ELSE LET r == InitClear([d EXCEPT !.epd = TRUE], bad)
         IN  [d |-> r.d, ret |-> r.ok, raised |-> FALSE,
              log |-> <<"EPD">> \o r.log]

SimulationMode(d) == ~DISPLAY_AVAILABLE \/ ~d.epd

SimNextCountStuck(rc) == rc

SimNextCount(rc) == rc + 1

\* display_image, hardware branch: "self.refresh_count += 1" after the push
HwNextCountStuck(rc) == rc

HwNextCount(rc) == rc + 1

\* display_image: "if full_refresh: self.epd.init(0); self.epd.Clear(0xFF)"
FullRefreshFirstAlways(d, full_refresh, bad) == InitClear(d, bad)

FullRefreshFirst(d, full_refresh, bad) ==
    IF full_refresh THEN InitClear(d, bad)
    ELSE [d |-> d, ok |-> TRUE, log |-> NoLog]

DC_display_image(d, full_refresh, bad) ==
    IF SimulationMode(d)
    THEN IF "save" \in bad
         THEN [d |-> d, ret |-> FALSE, raised |-> TRUE, log |-> <<"save">>]
         ELSE [d |-> [d EXCEPT !.files = Append(@, d.refresh_count),
                               !.refresh_count = SimNextCount(@)],
               ret |-> TRUE, raised |-> FALSE, log |-> <<"save">>]
    ELSE LET r == FullRefreshFirst(d, full_refresh, bad)
         IN  IF ~r.ok
             THEN [d |-> r.d, ret |-> FALSE, raised |-> FALSE, log |-> r.log]
             ELSE IF "display" \in bad
             THEN [d |-> r.d, ret |-> FALSE, raised |-> FALSE,
                   log |-> r.log \o <<"display">>]
             ELSE [d |-> [r.d EXCEPT
                            !.blank = IF r.d.power = "active" THEN FALSE ELSE @,
                            !.refresh_count = HwNextCount(@)],
                   ret |-> TRUE, raised |-> FALSE,
                   log |-> r.log \o <<"display">>]

DC_sleep(d, bad) ==
    IF DISPLAY_AVAILABLE /\ d.epd
    THEN IF "sleep" \in bad
         THEN [d |-> d, ret |-> TRUE, raised |-> FALSE, log |-> <<"sleep">>]
         ELSE [d |-> [d EXCEPT !.power = "sleep"], ret |-> TRUE,
               raised |-> FALSE, log |-> <<"sleep">>]
    ELSE [d |-> d, ret |-> TRUE, raised |-> FALSE, log |-> NoLog]

DC_clear(d, bad) ==
    IF DISPLAY_AVAILABLE /\ d.epd
    THEN LET r == InitClear(d, bad)
         IN  [d |-> r.d, ret |-> TRUE, raised |-> FALSE, log |-> r.log]
    ELSE [d |-> d, ret |-> TRUE, raised |-> FALSE, log |-> NoLog]

DC_cleanup_sleep_first(d, bad) ==
    LET s == DC_sleep(d, bad)
        c == DC_clear(s.d, bad)
    IN  [d |-> c.d, ret |-> TRUE, raised |-> FALSE, log |-> s.log \o c.log]

DC_cleanup(d, bad) ==
    LET c == DC_clear(d, bad)
        s == DC_sleep(c.d, bad)
    IN  [d |-> s.d, ret |-> TRUE, raised |-> FALSE, log |-> c.log \o s.log]

\* Record of one DisplayController call, kept in the variable op.
\* failed: the driver calls of the log that raised.
NoOp == [name |-> "none", full_refresh |-> FALSE, simulated |-> FALSE,
         ret |-> TRUE, raised |-> FALSE, log |-> NoLog, failed |-> {}]

OpRecord(name, full, d, bad, r) ==
    [name |-> name, full_refresh |-> full, simulated |-> SimulationMode(d),
     ret |-> r.ret, raised |-> r.raised, log |-> r.log,
     failed |-> {r.log[k] : k \in 1 .. Len(r.log)} \cap bad]

(***************************************************************************)
(* Frame Loop.                                                             *)
(***************************************************************************)
NoImage == 0

\* utils.get_image_files: the sorted listing, empty when the directory is
\* missing.
get_image_files(exists, files) ==
    IF ~exists THEN <<>> ELSE SortedSeq(files)

\* The photo directory as one scan finds it: external agents add and remove
\* files between scans, so every scan may find any of these.
DirStates ==
    {[exists |-> FALSE, files |-> {}]}
        \cup {[exists |-> TRUE, files |-> S] : S \in SUBSET Files}

\* PictureFrame.load_images: the lists it may leave in image_list when the
\* directory is as in ds.
load_images(ds) ==
    LET found == get_image_files(ds.exists, ds.files)
    IN  IF random_order THEN Shuffles(found) ELSE {found}

\* The lists load_images may leave, over every state of the directory.
LoadedLists == UNION {load_images(ds) : ds \in DirStates}

\* run: "if self.current_index == 0" guards the reload.
NeedReloadAlways(idx) == TRUE

NeedReload(idx) == idx = 0

\* next_image: full_refresh = (self.refresh_count % self.full_clear_interval == 0)
FullRefreshBeforeIncrement(rc, K) == (rc - 1) % K = 0

FullRefresh(rc, K) == rc % K = 0

\* next_image: self.current_index = (self.current_index + 1) % len(self.image_list)
AdvanceIndexNoWrap(idx, n) == idx + 1

AdvanceIndex(idx, n) == (idx + 1) % n

\* next_image: "if not processed_image: ... return False" leaves the index.
IndexAfterFailureSkips(idx, n) == (idx + 1) % n

IndexAfterFailure(idx, n) == idx

\* next_image: "if self.current_index == 0 and self.random_order"
ShouldReshuffleEveryCall(idx, random) == random

ShouldReshuffle(idx, random) == idx = 0 /\ random

\* next_image: "if not self.image_list: ... return False"
ListEmptyUnchecked(list) == FALSE

ListEmpty(list) == list = <<>>

\* next_image: "if self.sleep_enabled: self.display.sleep()"
ShouldSleepAlways(enabled) == TRUE

ShouldSleep(enabled) == enabled

\* initialize: "if not self.image_list: return False" precedes the banner.
BannerShownAnyway(list) == TRUE

BannerShown(list) == list # <<>>

\* run: the finally clause runs for both except clauses.
FinallyCleanupOnInterruptOnly(how) == how = "Stopped"

FinallyCleanup(how) == how \in {"Stopped", "Failed"}

\* The driver calls cleanup can make.
CleanupCalls == {"init", "Clear", "sleep"}

\* The count of next_image calls in a pass is kept up to one more than the
\* longest list.
PassCap == MaxFiles + 1

Bump(n) == IF n < PassCap THEN n + 1 ELSE PassCap

\* next_image: self.refresh_count += 1, before the display is called and
\* whatever the display call returns.
FrameNextCountStuck(rc) == rc

FrameNextCount(rc) == rc + 1

\* PictureFrame.next_image up to and including the index advance; the
\* reshuffle that follows is applied by the caller of this operator.
\*   procOK  process_image returned a bitmap
\*   cut     where a KeyboardInterrupt arrives during the call, if at all
next_image(list, idx, rc, d, procOK, bad, cut) ==
    LET base == [current_index |-> idx, refresh_count |-> rc, d |-> d,
                 selected |-> NoImage, full_refresh |-> FALSE,
                 displayed |-> FALSE, slept |-> FALSE]
    IN
    IF ListEmpty(list)
    THEN base @@ [result |-> "empty"]
    ELSE IF idx >= Len(list)
    THEN base @@ [result |-> "fault"]
    ELSE LET sel == [base EXCEPT !.selected = list[idx + 1]] IN
    IF ~procOK
    THEN [sel EXCEPT !.current_index = IndexAfterFailure(idx, Len(list))]
             @@ [result |-> "noresult"]
    ELSE LET cnt == [sel EXCEPT !.refresh_count = FrameNextCount(rc)] IN
    IF full_clear_interval = 0
    THEN cnt @@ [result |-> "fault"]
    ELSE LET full == FullRefresh(cnt.refresh_count, full_clear_interval)
             flg  == [cnt EXCEPT !.full_refresh = full] IN
    IF cut = "before_display"
    THEN flg @@ [result |-> "interrupted"]
    ELSE LET r == DC_display_image(d, full, bad)
             dsp == [flg EXCEPT !.d = r.d, !.displayed = TRUE] IN
    IF r.raised
    THEN dsp @@ [result |-> "fault"]
    ELSE IF cut = "after_display"
    THEN dsp @@ [result |-> "interrupted"]
    ELSE LET s == IF ShouldSleep(sleep_enabled) THEN DC_sleep(r.d, bad)
                  ELSE [d |-> r.d, log |-> NoLog]
             slp == [dsp EXCEPT !.d = s.d,
                                !.slept = ShouldSleep(sleep_enabled)] IN
    [slp EXCEPT !.current_index = AdvanceIndex(idx, Len(list))]
        @@ [result |-> "ok"]

\* Record of one pass of the loop, kept in the variable last:
\*   result     "ok", "noresult" (transform failed), "empty" (no images),
\*              "fault" (an exception left the loop), "interrupted"
\*   scanned    the pass enumerated the directory (or tried to)
\*   selected   the image next_image selected
\*   calls, oks next_image calls on a non-empty list, and those that went
\*              through, since the last call that started at index 0
NoIteration ==
    [result |-> "none", scanned |-> FALSE, selected |-> NoImage,
     full_refresh |-> FALSE, displayed |-> FALSE, slept |-> FALSE,
     shuffled |-> FALSE, calls |-> 0, oks |-> 0]

\* The record of an iteration whose next_image call gave n.
IterationRecord(n, idx, shuffled) ==
    LET counted == n.result \in {"ok", "noresult"}
        fresh   == idx = 0
        okInc   == IF n.result = "ok" THEN 1 ELSE 0
    IN
    [result |-> n.result, scanned |-> NeedReload(idx),
     selected |-> n.selected,
     full_refresh |-> n.full_refresh, displayed |-> n.displayed,
     slept |-> n.slept, shuffled |-> shuffled,
     calls |-> IF ~counted THEN last.calls
               ELSE IF fresh THEN 1 ELSE Bump(last.calls),
     oks   |-> IF ~counted THEN last.oks
               ELSE IF fresh THEN okInc ELSE last.oks + okInc]

(***************************************************************************)
(* Image Transform (ImageProcessor in src/src/image_processor.py): the     *)
(* sizes process_image computes.  The source image is src_w x src_h after  *)
(* the EXIF transpose, the target geometry is w x h.  The ratios are       *)
(* compared and the derived side is floored on exact quotients; the code   *)
(* computes them in floating point.                                        *)
(***************************************************************************)
MaxSrc == 4

MaxDim == 3

\* _resize_maintain_aspect: the size handed to img.resize.
\*   img_ratio > display_ratio   is   src_w / src_h > w / h
\*   int(self.width / img_ratio) is   floor(w * src_h / src_w)
\*   int(self.height * img_ratio) is  floor(h * src_w / src_h)
resize_maintain_aspect(src_w, src_h, w, h) ==
    IF src_w * h > w * src_h
    THEN [width |-> w, height |-> (w * src_h) \div src_w]
    ELSE [width |-> (h * src_w) \div src_h, height |-> h]

\* _create_canvas: the canvas and where the resized image is pasted.
create_canvas(img, w, h) ==
    [ok |-> TRUE, width |-> w, height |-> h,
     new_width |-> img.width, new_height |-> img.height,
     x_offset |-> (w - img.width) \div 2,
     y_offset |-> (h - img.height) \div 2]

\* The None result of process_image.
NoBitmap ==
    [ok |-> FALSE, width |-> 0, height |-> 0, new_width |-> 0,
     new_height |-> 0, x_offset |-> 0, y_offset |-> 0]

\* process_image: Image.open raises on a file it cannot decode, img.resize
\* raises ValueError on a size with a side below 1; the except clause turns
\* both into the None result.  Contrast, conversion, dithering and the
\* border leave the sizes as they are.
process_image(decodable, src_w, src_h, w, h) ==
    IF ~decodable THEN NoBitmap
    ELSE LET size == resize_maintain_aspect(src_w, src_h, w, h) IN
         IF size.width < 1 \/ size.height < 1 THEN NoBitmap
         ELSE create_canvas(size, w, h)

\* No process_image call has been made.
NoTransform ==
    [done |-> FALSE, decodable |-> FALSE, src_w |-> 0, src_h |-> 0,
     w |-> 0, h |-> 0, result |-> NoBitmap]

(***************************************************************************)
(* utils.get_image_files in detail.  A file of the directory is named      *)
(* "photo" followed by its extension; an extension, of a file or of the    *)
(* configured list, is the sequence of its characters after the dot.       *)
(* Above, get_image_files is this function on a directory whose files all  *)
(* match, each once.                                                       *)
(***************************************************************************)
MaxExtLen == 2

MaxEntries == 2

MaxExts == 1

Letters == {"j", "J"}

\* ext.upper(), character by character.
upper(c) == IF c = "j" THEN "J" ELSE c

str_upper(e) == [i \in 1 .. Len(e) |-> upper(e[i])]

\* The code point of a character; paths sort by code points.
ord(c) == IF c = "J" THEN 74 ELSE 106

ExtStrings == UNION {[1 .. n -> Letters] : n \in 1 .. MaxExtLen}

\* a < b for two paths of the directory.
PathLess(a, b) ==
    \E k \in 1 .. Len(b) :
        /\ k <= Len(a) + 1
        /\ \A i \in 1 .. k - 1 : a[i] = b[i]
        /\ k = Len(a) + 1 \/ ord(a[k]) < ord(b[k])

\* sorted(files): duplicates are kept.
RECURSIVE sorted(_)
sorted(files) ==
    IF files = <<>> THEN <<>>
    ELSE LET i == CHOOSE i \in 1 .. Len(files) :
                      \A j \in 1 .. Len(files) : ~PathLess(files[j], files[i])
             rest == [j \in 1 .. Len(files) - 1 |->
                         IF j < i THEN files[j] ELSE files[j + 1]]
         IN  <<files[i]>> \o sorted(rest)

\* directory.glob(f"*{ext}"): the files whose name ends in the pattern's
\* extension, compared character by character (the match is case
\* sensitive); a directory holds one file of a name at most.
glob(entries, ext) ==
    LET found == {f \in entries : f = ext}
    IN  IF found = {} THEN <<>> ELSE <<ext>>

\* for ext in extensions: files.extend(glob(ext)); files.extend(glob(ext.upper()))
RECURSIVE extend_files(_, _)
extend_files(entries, extensions) ==
    IF extensions = <<>> THEN <<>>
    ELSE glob(entries, Head(extensions))
             \o glob(entries, str_upper(Head(extensions)))
             \o extend_files(entries, Tail(extensions))

list_image_files(exists, entries, extensions) ==
    IF ~exists THEN <<>> ELSE sorted(extend_files(entries, extensions))

\* No get_image_files call has been made.
NoListing ==
    [done |-> FALSE, exists |-> FALSE, entries |-> {}, extensions |-> <<>>,
     result |-> <<>>]

(***************************************************************************)
(* The program started by main().                                          *)
(***************************************************************************)
Init ==
    /\ DISPLAY_AVAILABLE \in BOOLEAN
    /\ config_exists \in BOOLEAN
    /\ random_order \in BOOLEAN
    /\ sleep_enabled \in BOOLEAN
    /\ full_clear_interval \in 0 .. MaxK
    /\ ~config_exists =>
          random_order /\ sleep_enabled /\ full_clear_interval = MaxK
    /\ image_list = <<>>
    /\ current_index = 0
    /\ refresh_count = 0
    /\ \E b \in BOOLEAN : display = NewDisplay(b)
    /\ pc = "start"
    /\ init_result = "none"
    /\ exit_status = -1
    /\ cleanup_calls = 0
    /\ display_image_calls = 0
    /\ last = NoIteration
    /\ op = NoOp
    /\ transform = NoTransform
    /\ listing = NoListing

\* main: the configuration file is missing.
MainNoConfig ==
    /\ pc = "start"
    /\ ~config_exists
    /\ pc' = "Exited"
    /\ exit_status' = 1
    /\ UNCHANGED <<pureVars, configVars, frameVars, display, init_result,
                   cleanup_calls, display_image_calls, last, op>>

\* main: frame.initialize() and what main does with its result.
\*   scanOK  get_image_files listed the directory without raising
Initialize ==
    /\ pc = "start"
    /\ config_exists
    /\ \E bad \in SUBSET {"EPD", "init", "Clear", "display"},
          scanOK \in BOOLEAN :
        LET i == DC_initialize(display, bad) IN
        /\ op' = OpRecord("initialize", FALSE, display, bad, i)
        /\ IF ~i.ret \/ ~scanOK
           THEN /\ display' = i.d
                /\ init_result' = IF ~i.ret THEN "display_failed"
                                  ELSE "scan_raised"
                /\ pc' = "Exited"
                /\ exit_status' = 1
                /\ UNCHANGED <<frameVars, display_image_calls>>
           ELSE \E loaded \in LoadedLists :
                /\ image_list' = loaded
                /\ UNCHANGED <<current_index, refresh_count>>
                /\ IF BannerShown(loaded)
                   THEN LET b == DC_display_image(i.d, FALSE, bad) IN
                        /\ display' = b.d
                        /\ display_image_calls' = display_image_calls + 1
                        /\ IF loaded = <<>> \/ b.raised
                           THEN /\ pc' = "Exited"
                                /\ exit_status' = 1
                                /\ init_result' = IF loaded = <<>>
                                                  THEN "no_images"
                                                  ELSE "banner_raised"
                           ELSE /\ pc' = "Running"
                                /\ exit_status' = -1
                                /\ init_result' = "ok"
                   ELSE /\ display' = i.d
                        /\ UNCHANGED display_image_calls
                        /\ pc' = "Exited"
                        /\ exit_status' = 1
                        /\ init_result' = "no_images"
    /\ UNCHANGED <<pureVars, configVars, cleanup_calls, last>>

\* run: how the loop ends.  The except clause that caught the exception has
\* logged, the finally clause runs self.cleanup() on the controller as the
\* pass left it (d), run returns and main ends.
\*   how  "Stopped" after KeyboardInterrupt, "Failed" after any Exception
\*   bad  the driver calls that raise during this step
RunExit(how, d, bad) ==
    /\ IF FinallyCleanup(how)
       THEN /\ display' = DC_cleanup(d, bad).d
            /\ cleanup_calls' = cleanup_calls + 1
       ELSE /\ display' = d
            /\ UNCHANGED cleanup_calls
    /\ pc' = how
    /\ exit_status' = 0

RunContinues(d) ==
    /\ display' = d
    /\ UNCHANGED <<pc, exit_status, cleanup_calls>>

\* run: the rest of a pass once the list is loaded: next_image, the
\* reshuffle that ends it, and the end of the loop if the call raised or
\* was interrupted.
\*   procOK  process_image returned a bitmap
\*   bad     the driver calls that raise during this step
\*   cut     where a KeyboardInterrupt arrives during next_image, if at all
CallNextImage(loaded, procOK, bad, cut) ==
    \E n \in {next_image(loaded, current_index, refresh_count, display,
                         procOK, bad, cut)} :
    LET shuffle == /\ n.result = "ok"
                   /\ ShouldReshuffle(n.current_index, random_order)
    IN
    /\ image_list' \in (IF shuffle THEN Shuffles(loaded) ELSE {loaded})
    /\ current_index' = n.current_index
    /\ refresh_count' = n.refresh_count
    /\ display_image_calls' =
           display_image_calls + (IF n.displayed THEN 1 ELSE 0)
    /\ last' = IterationRecord(n, current_index, shuffle)
    /\ CASE n.result = "fault" -> RunExit("Failed", n.d, bad)
         [] n.result = "interrupted" -> RunExit("Stopped", n.d, bad)
         [] OTHER -> RunContinues(n.d)

\* The driver calls next_image can make from controller state d when its
\* refresh_count is rc on entry.
PassCalls(d, rc) ==
    IF SimulationMode(d) THEN {"save"}
    ELSE {"display"}
         \cup (IF full_clear_interval # 0
                   /\ FullRefresh(rc + 1, full_clear_interval)
                THEN {"init", "Clear"} ELSE {})
         \cup (IF sleep_enabled THEN {"sleep"} ELSE {})

\* The driver calls that may raise in a step of the loop that calls
\* next_image: those the pass makes; when a KeyboardInterrupt arrives before
\* the first of them, those of them the cleanup makes again.
StepCalls(d, rc, cut) ==
    IF cut = "before_display" THEN PassCalls(d, rc) \cap CleanupCalls
    ELSE PassCalls(d, rc)

\* run: one pass through the body of the while loop; the directory scan
\* finds any of the directory's states, or raises.
RunIteration ==
    /\ pc = "Running"
    /\ refresh_count < MaxRefresh
    /\ LET reload == NeedReload(current_index) IN
       \/ /\ reload
          /\ \E bad \in SUBSET CleanupCalls :
                RunExit("Failed", display, bad)
          /\ last' = [NoIteration EXCEPT !.result = "fault",
                         !.scanned = TRUE,
                         !.calls = last.calls, !.oks = last.oks]
          /\ UNCHANGED <<frameVars, display_image_calls>>
       \/ \E loaded \in (IF reload THEN LoadedLists ELSE {image_list}) :
             \/ CallNextImage(loaded, FALSE, {}, "none")
             \/ /\ loaded # <<>>
                /\ \E cut \in {"none", "before_display", "after_display"} :
                   \E bad \in SUBSET StepCalls(display, refresh_count, cut) :
                      CallNextImage(loaded, TRUE, bad, cut)
    /\ UNCHANGED <<pureVars, configVars, init_result, op>>

\* run: KeyboardInterrupt while the loop is in time.sleep(refresh_interval).
Interrupt ==
    /\ pc = "Running"
    /\ \E bad \in SUBSET CleanupCalls : RunExit("Stopped", display, bad)
    /\ UNCHANGED <<pureVars, configVars, frameVars, init_result,
                   display_image_calls, last, op>>

Next ==
    \/ MainNoConfig
    \/ Initialize
    \/ RunIteration
    \/ Interrupt

Spec == Init /\ [][Next]_vars

(***************************************************************************)
(* The DisplayController on its own: a client constructs it and calls its  *)
(* public methods in any order.  The frame is not running (pc = "client"). *)
(***************************************************************************)
InitDisplay ==
    /\ DISPLAY_AVAILABLE \in BOOLEAN
    /\ config_exists = TRUE
    /\ random_order = TRUE
    /\ sleep_enabled = TRUE
    /\ full_clear_interval = MaxK
    /\ image_list = <<>>
    /\ current_index = 0
    /\ refresh_count = 0
    /\ \E b \in BOOLEAN : display = NewDisplay(b)
    /\ pc = "client"
    /\ init_result = "none"
    /\ exit_status = -1
    /\ cleanup_calls = 0
    /\ display_image_calls = 0
    /\ last = NoIteration
    /\ op = NoOp
    /\ transform = NoTransform
    /\ listing = NoListing

clientVars ==
    <<pureVars, configVars, frameVars, pc, init_result, exit_status, last>>

CallInitialize ==
    /\ pc = "client"
    /\ \E bad \in SUBSET {"EPD", "init", "Clear"} :
        LET r == DC_initialize(display, bad) IN
        /\ display' = r.d
        /\ op' = OpRecord("initialize", FALSE, display, bad, r)
    /\ UNCHANGED <<clientVars, cleanup_calls, display_image_calls>>

CallDisplayImage ==
    /\ pc = "client"
    /\ display.refresh_count < MaxRefresh
    /\ \E full \in BOOLEAN,
          bad \in SUBSET {"init", "Clear", "display", "save"} :
        LET r == DC_display_image(display, full, bad) IN
        /\ display' = r.d
        /\ op' = OpRecord("display_image", full, display, bad, r)
    /\ UNCHANGED <<clientVars, cleanup_calls, display_image_calls>>

CallSleep ==
    /\ pc = "client"
    /\ \E bad \in SUBSET {"sleep"} :
        LET r == DC_sleep(display, bad) IN
        /\ display' = r.d
        /\ op' = OpRecord("sleep", FALSE, display, bad, r)
    /\ UNCHANGED <<clientVars, cleanup_calls, display_image_calls>>

CallClear ==
    /\ pc = "client"
    /\ \E bad \in SUBSET {"init", "Clear"} :
        LET r == DC_clear(display, bad) IN
        /\ display' = r.d
        /\ op' = OpRecord("clear", FALSE, display, bad, r)
    /\ UNCHANGED <<clientVars, cleanup_calls, display_image_calls>>

CallCleanup ==
    /\ pc = "client"
    /\ \E bad \in SUBSET CleanupCalls :
        LET r == DC_cleanup(display, bad) IN
        /\ display' = r.d
        /\ op' = OpRecord("cleanup", FALSE, display, bad, r)
    /\ UNCHANGED <<clientVars, cleanup_calls, display_image_calls>>

NextDisplay ==
    \/ CallInitialize
    \/ CallDisplayImage
    \/ CallSleep
    \/ CallClear
    \/ CallCleanup

SpecDisplay == InitDisplay /\ [][NextDisplay]_vars

(***************************************************************************)
(* The program in a steady environment: the photo directory holds the same *)
(* files at every scan, every image transform returns a bitmap and no       *)
(* interrupt arrives.  The driver calls may still fail.                     *)
(***************************************************************************)
\* The files of the directory a list was read from.
Inventory(list) == {list[i] : i \in 1 .. Len(list)}

\* run: one pass through the body of the while loop when the scan finds the
\* files it found before.
SteadyIteration ==
    /\ pc = "Running"
    /\ refresh_count < MaxCycles
    /\ \E loaded \in (IF NeedReload(current_index)
                      THEN load_images([exists |-> TRUE,
                                        files |-> Inventory(image_list)])
                      ELSE {image_list}) :
          \E bad \in SUBSET PassCalls(display, refresh_count) :
              CallNextImage(loaded, TRUE, bad, "none")
    /\ UNCHANGED <<pureVars, configVars, init_result, op>>

NextSteady ==
    \/ MainNoConfig
    \/ Initialize
    \/ SteadyIteration

SpecSteady == Init /\ [][NextSteady]_vars

(***************************************************************************)
(* ImageProcessor.process_image on its own: a source image and a target    *)
(* geometry are chosen and the function is applied to them.  The frame is  *)
(* not running (pc = "transform").                                         *)
(***************************************************************************)
programVars ==
    <<configVars, frameVars, display, pc, init_result, exit_status,
      cleanup_calls, display_image_calls, last, op>>

InitTransform ==
    /\ DISPLAY_AVAILABLE = TRUE
    /\ config_exists = TRUE
    /\ random_order = TRUE
    /\ sleep_enabled = TRUE
    /\ full_clear_interval = MaxK
    /\ image_list = <<>>
    /\ current_index = 0
    /\ refresh_count = 0
    /\ display = NewDisplay(FALSE)
    /\ pc = "transform"
    /\ init_result = "none"
    /\ exit_status = -1
    /\ cleanup_calls = 0
    /\ display_image_calls = 0
    /\ last = NoIteration
    /\ op = NoOp
    /\ \E decodable \in BOOLEAN, src_w, src_h \in 1 .. MaxSrc,
          w, h \in 1 .. MaxDim :
          transform = [NoTransform EXCEPT
                         !.decodable = decodable,
                         !.src_w = src_w, !.src_h = src_h,
                         !.w = w, !.h = h]
    /\ listing = NoListing

CallProcessImage ==
    /\ pc = "transform"
    /\ ~transform.done
    /\ transform' =
           [transform EXCEPT
              !.done = TRUE,
              !.result = process_image(transform.decodable, transform.src_w,
                                       transform.src_h, transform.w,
                                       transform.h)]
    /\ UNCHANGED <<programVars, listing>>

NextTransform == CallProcessImage

SpecTransform == InitTransform /\ [][NextTransform]_vars

(***************************************************************************)
(* utils.get_image_files on its own: a directory and a list of extensions  *)
(* are chosen and the function is applied to them.  The frame is not       *)
(* running (pc = "listing").                                               *)
(***************************************************************************)
Directories ==
    {[exists |-> FALSE, entries |-> {}]}
        \cup {[exists |-> TRUE, entries |-> S] :
                 S \in {T \in SUBSET ExtStrings : Cardinality(T) <= MaxEntries}}

ExtensionLists == UNION {[1 .. n -> ExtStrings] : n \in 1 .. MaxExts}

InitListing ==
    /\ DISPLAY_AVAILABLE = TRUE
    /\ config_exists = TRUE
    /\ random_order = TRUE
    /\ sleep_enabled = TRUE
    /\ full_clear_interval = MaxK
    /\ image_list = <<>>
    /\ current_index = 0
    /\ refresh_count = 0
    /\ display = NewDisplay(FALSE)
    /\ pc = "listing"
    /\ init_result = "none"
    /\ exit_status = -1
    /\ cleanup_calls = 0
    /\ display_image_calls = 0
    /\ last = NoIteration
    /\ op = NoOp
    /\ transform = NoTransform
    /\ \E dir \in Directories, extensions \in ExtensionLists :
          listing = [NoListing EXCEPT
                       !.exists = dir.exists, !.entries = dir.entries,
                       !.extensions = extensions]

CallGetImageFiles ==
    /\ pc = "listing"
    /\ ~listing.done
    /\ listing' =
           [listing EXCEPT
              !.done = TRUE,
              !.result = list_image_files(listing.exists, listing.entries,
                                          listing.extensions)]
    /\ UNCHANGED <<programVars, transform>>

NextListing == CallGetImageFiles

SpecListing == InitListing /\ [][NextListing]_vars

(***************************************************************************)
(* Properties.                                                             *)
(***************************************************************************)
Completed(result) == result \in {"ok", "noresult", "empty"}

\* C1: in every reachable state of the Frame Loop, whenever image_list is
\* non-empty, 0 <= current_index < len(image_list).
C1_IndexInRange ==
    image_list # <<>> =>
        (0 <= current_index /\ current_index < Len(image_list))

\* The cursor stands on the last element of a list of two or more images.
C1_Witness ==
    /\ pc = "Running"
    /\ last.result = "ok"
    /\ Len(image_list) >= 2
    /\ current_index = Len(image_list) - 1

\* C2: with full_clear_interval = K >= 1, a display_image call made by
\* next_image passes full_refresh = true exactly when refresh_count, after
\* that cycle's increment, is a multiple of K.
C2_FullRefreshCadence ==
    (last.displayed /\ full_clear_interval >= 1) =>
        (last.full_refresh <=> (refresh_count % full_clear_interval = 0))

\* The second cycle with K = 2 asked for a full refresh.
C2_Witness ==
    /\ last.displayed
    /\ last.full_refresh
    /\ full_clear_interval = 2
    /\ refresh_count = 2

\* C3 as stated: for an inventory of N images, starting from current_index
\* = 0, after N next_image calls current_index is 0 again.
C3_Original ==
    (last.result \in {"ok", "noresult"} /\ last.calls = Len(image_list)) =>
        current_index = 0

\* C3 amended: for an inventory of N images, starting from current_index =
\* 0, after N next_image calls that each process their image current_index
\* is 0 again; with random_order the list is reshuffled in the next_image
\* call that wraps the index to 0 and in no other next_image call.
C3_CursorWrap ==
    last.result \in {"ok", "noresult"} =>
        /\ last.oks = Len(image_list) => current_index = 0
        /\ last.shuffled <=>
              (random_order /\ last.result = "ok" /\ current_index = 0)

\* A pass over two or more images, one of whose calls failed to process,
\* wrapped to 0 and reshuffled.
C3_Witness ==
    /\ last.result = "ok"
    /\ Len(image_list) >= 2
    /\ last.oks = Len(image_list)
    /\ last.calls > last.oks
    /\ current_index = 0
    /\ last.shuffled

\* C4: whenever the run loop leaves Running, by an interrupt or by an
\* uncaught fault inside an iteration, display.cleanup() is invoked exactly
\* once before run returns; it is not invoked while the loop runs.
C4_CleanupOnce ==
    /\ pc \in {"Stopped", "Failed"} => cleanup_calls = 1
    /\ pc = "Running" => cleanup_calls = 0

\* run has returned after a fault inside an iteration.
C4_Witness ==
    /\ pc = "Failed"
    /\ last.result = "fault"
    /\ refresh_count >= 1
    /\ cleanup_calls = 1

\* C5: when the display hardware is unavailable, DisplayController
\* .initialize() still returns True, so PictureFrame.initialize() goes on
\* to enumerate images.
C5_InitializeWithoutHardware ==
    (~DISPLAY_AVAILABLE /\ op.name = "initialize") =>
        (op.ret /\ init_result # "display_failed")

\* C6: in simulation mode every display_image call writes a file whose
\* index is larger than the index written by every earlier call.
C6_FileIndexIncreases ==
    \A i, j \in 1 .. Len(display.files) :
        i < j => display.files[i] < display.files[j]

\* Two simulated display_image calls have written their files.
C6_Witness ==
    /\ op.name = "display_image"
    /\ op.simulated
    /\ Len(display.files) >= 2

\* C7: if the photo directory yields no image at Init, initialize() fails,
\* the process exits with a nonzero status and display_image is never
\* called.
C7_EmptyDirectoryAtInit ==
    init_result = "no_images" =>
        /\ pc = "Exited"
        /\ exit_status # 0
        /\ exit_status # -1
        /\ display_image_calls = 0
        /\ display.refresh_count = 0
        /\ display.files = <<>>

\* The display was initialized and the directory gave no image.
C7_Witness ==
    /\ init_result = "no_images"
    /\ op.name = "initialize"
    /\ op.ret
    /\ image_list = <<>>

\* A step of the loop that is one pass through its body: Interrupt, the
\* only other step from Running, leaves last and the frame as they are.
IterationStep ==
    pc = "Running" /\ (last' # last \/ frameVars' # frameVars)

\* A cycle whose transform yields no result changes nothing and calls
\* neither display_image nor sleep.
FailedCycleIsNoOp ==
    (IterationStep /\ last'.result = "noresult") =>
        /\ current_index' = current_index
        /\ refresh_count' = refresh_count
        /\ current_index # 0 => image_list' = image_list
        /\ ~last'.shuffled
        /\ ~last'.displayed
        /\ ~last'.slept
        /\ display' = display
        /\ display_image_calls' = display_image_calls

\* C8 as stated: when the transform yields no result, next_image changes
\* nothing and calls neither display_image nor sleep, and the next
\* iteration selects the same image again.
C8_Original ==
    [][/\ FailedCycleIsNoOp
       /\ (IterationStep /\ last.result = "noresult"
              /\ Completed(last'.result))
            => last'.selected = last.selected]_vars

\* C8 amended: when the transform yields no result, next_image changes
\* nothing and calls neither display_image nor sleep; the next iteration
\* selects the same image again when current_index is not 0; at index 0
\* the loop first re-enumerates the directory and, with random_order,
\* shuffles, and the same image is selected only if that leaves the list
\* as it was.
C8_FailedCycle ==
    [][/\ FailedCycleIsNoOp
       /\ (IterationStep /\ last.result = "noresult"
              /\ Completed(last'.result)
              /\ (current_index # 0 \/ image_list' = image_list))
            => last'.selected = last.selected]_vars

\* The image at a non-zero index failed twice in a row.
C8_Witness ==
    /\ pc = "Running"
    /\ last.result = "noresult"
    /\ current_index # 0
    /\ last.calls >= 3
    /\ last.oks = 1

\* C9: no DisplayController operation propagates a fault to its caller, in
\* hardware mode or in simulation mode.
C9_NoFaultPropagates ==
    op.raised = FALSE

\* cleanup makes clear's driver calls and then sleep's, sleep also when
\* clear failed, and makes none when there is no panel object.
CleanupOrder ==
    op.name = "cleanup" =>
        /\ op.log \in {<<>>, <<"init", "sleep">>, <<"init", "Clear", "sleep">>}
        /\ op.log = <<>> <=> SimulationMode(display)

PassPushed ==
    /\ IterationStep
    /\ last'.displayed
    /\ ~SimulationMode(display)
    /\ display'.refresh_count = display.refresh_count + 1

\* C11: a bitmap is pushed to the hardware panel only while the adapter is
\* Ready: no display_image push reaches the panel after a sleep() unless
\* the panel has been re-initialized in between (by the full refresh of the
\* same call).
C11_PushOnlyWhenReady ==
    [][PassPushed => (last'.full_refresh \/ display.power # "sleep")]_vars

C13_TransformTotal ==
    (transform.done /\ transform.decodable) =>
        LET r == transform.result IN
        /\ r.ok
        /\ r.width = transform.w
        /\ r.height = transform.h
        /\ 1 <= r.new_width /\ r.new_width <= transform.w
        /\ 1 <= r.new_height /\ r.new_height <= transform.h
        /\ 0 <= r.x_offset /\ r.x_offset + r.new_width <= transform.w
        /\ 0 <= r.y_offset /\ r.y_offset + r.new_height <= transform.h

\* Two extensions are equal up to the case of their letters.
SameIgnoringCase(e, f) ==
    /\ Len(e) = Len(f)
    /\ \A i \in 1 .. Len(e) : e[i] = f[i] \/ upper(e[i]) = upper(f[i])

\* A file's extension equals a supported extension case-insensitively.
Supported(f, extensions) ==
    \E i \in 1 .. Len(extensions) : SameIgnoringCase(f, extensions[i])

\* C14: get_image_files returns, in sorted order and each exactly once,
\* every file of the directory whose extension equals a supported extension
\* case-insensitively, and no other file.
C14_ListingComplete ==
    listing.done =>
        LET r == listing.result IN
        /\ \A i, j \in 1 .. Len(r) : i < j => PathLess(r[i], r[j])
        /\ {r[i] : i \in 1 .. Len(r)} =
               {f \in listing.entries : Supported(f, listing.extensions)}

\* C15: in hardware mode, display_image with full_refresh = true
\* reinitializes the panel and clears it before pushing the bitmap, in that
\* order within the same call (and does not push when either fails); with
\* full_refresh = false it pushes the bitmap with no reinitialize and no
\* clear.
C15_FullRefreshOrder ==
    (op.name = "display_image" /\ ~op.simulated) =>
        IF op.full_refresh
        THEN \/ op.log = <<"init", "Clear", "display">>
             \/ op.log = <<"init", "Clear">> /\ "Clear" \in op.failed
             \/ op.log = <<"init">> /\ "init" \in op.failed
        ELSE op.log = <<"display">>

\* A full refresh went through: init, Clear, display, and the push counted.
C15_Witness ==
    /\ op.name = "display_image"
    /\ ~op.simulated
    /\ op.full_refresh
    /\ op.ret
    /\ op.log = <<"init", "Clear", "display">>
    /\ display.power = "active"
    /\ ~display.blank

\* C16: DisplayController.refresh_count increases by exactly 1 on every
\* display_image call that returns True, is unchanged by every
\* display_image call that returns False (or raises) and by initialize,
\* sleep, clear and cleanup, and never decreases.
C16_RefreshCountSteps ==
    [][IF op'.name = "display_image" /\ op'.ret /\ ~op'.raised
       THEN display'.refresh_count = display.refresh_count + 1
       ELSE display'.refresh_count = display.refresh_count]_vars

\* A hardware push that failed after one that was counted.
C16_Witness ==
    /\ op.name = "display_image"
    /\ ~op.simulated
    /\ ~op.ret
    /\ op.failed # {}
    /\ display.refresh_count >= 1

\* C17: in every cycle whose image transform succeeds (and that runs to
\* its end), if sleep_between_updates is enabled next_image calls
\* display.sleep() once, after the display_image call and before the index
\* advances; if it is disabled, the loop never calls display.sleep() and
\* the panel is not put to sleep before the cleanup path.
C17_SleepAfterDisplay ==
    /\ last.result = "ok" => (last.displayed /\ last.slept = sleep_enabled)
    /\ last.slept => (sleep_enabled /\ last.displayed /\ last.result = "ok")
    /\ (pc = "Running" /\ ~sleep_enabled) => display.power # "sleep"

\* A cycle displayed, put the panel to sleep and advanced the index.
C17_Witness ==
    /\ pc = "Running"
    /\ sleep_enabled
    /\ last.result = "ok"
    /\ last.displayed
    /\ last.slept
    /\ display.power = "sleep"
    /\ current_index = 1

\* The run loop enumerates the directory at the start of the iterations
\* that begin with current_index = 0 and of no other, and an iteration
\* that begins with current_index # 0 leaves the membership of image_list
\* as it is.
ScanAtIndexZero ==
    /\ last'.scanned <=> current_index = 0
    /\ current_index # 0 => Inventory(image_list') = Inventory(image_list)

\* C18 as stated: the run loop enumerates the directory exactly once per
\* full pass through the list, that is once between two consecutive wraps
\* of current_index to 0 (an iteration enumerates only if it is the first
\* or the iteration before it wrapped the index), and the membership of
\* image_list does not change during any iteration that starts with
\* current_index # 0.
C18_Original ==
    [][IterationStep =>
          /\ ScanAtIndexZero
          /\ last'.scanned =>
                \/ last.result = "none"
                \/ last.result = "ok" /\ current_index = 0
      ]_vars

\* C18 amended: the run loop enumerates the directory at the start of
\* every iteration that begins with current_index = 0 and in no other
\* iteration: once per full pass while the image at index 0 processes, and
\* again in every iteration that follows a failed transform at index 0 or
\* an empty list; the membership of image_list does not change during any
\* iteration that starts with current_index # 0.
C18_ScanPerPass ==
    [][IterationStep =>
          /\ ScanAtIndexZero
          /\ last'.scanned =>
                \/ last.result = "none"
                \/ last.result = "ok" /\ current_index = 0
                \/ last.result \in {"noresult", "empty"} /\ last.scanned
          /\ (last.result \in {"noresult", "empty"} /\ last.scanned) =>
                last'.scanned
      ]_vars

\* The directory was enumerated again after the image at index 0 had
\* failed to process, and the list changed.
C18_Witness ==
    /\ pc = "Running"
    /\ last.scanned
    /\ last.result = "noresult"
    /\ current_index = 0
    /\ last.selected = 2
    /\ image_list = <<2, 1>>
    /\ refresh_count >= 1

\* The pass of this step follows a pass whose image failed to process,
\* selects an image and runs to its end, and the image that failed does not
\* process in it either.
RetryAfterFailure ==
    /\ last.result = "noresult"
    /\ IterationStep
    /\ last'.result \in {"ok", "noresult"}
    /\ ~(last'.selected = last.selected /\ last'.result = "ok")

\* The pass of this step is a failed retry of the image of the pass before.
StalledOnSameImage ==
    /\ last'.result = "noresult"
    /\ last'.selected = last.selected
    /\ current_index' = current_index
    /\ refresh_count' = refresh_count
    /\ ~last'.displayed
    /\ pc' = "Running"

\* C19 as stated: if the image at current_index fails to process on every
\* attempt, then from that point on current_index never changes and no
\* other image of the list is ever displayed: every later iteration retries
\* the same image, and the loop neither skips it nor terminates.
C19_Original ==
    [][RetryAfterFailure => StalledOnSameImage]_vars

\* C19 amended: if the image at current_index fails to process on every
\* attempt and current_index is not 0, then from that point on
\* current_index never changes and no other image is ever displayed: every
\* later iteration retries the same image, and the loop neither skips it
\* nor terminates.  At current_index 0 the same holds only for as long as
\* the enumeration (and shuffle) at the start of each iteration leaves that
\* image first in the list.
C19_StallOnFailure ==
    [][(RetryAfterFailure
           /\ (current_index # 0 \/ last'.selected = last.selected))
         => StalledOnSameImage]_vars

\* The second image of a sorted list of two failed three times in a row.
C19_Witness ==
    /\ pc = "Running"
    /\ ~random_order
    /\ image_list = <<1, 2>>
    /\ current_index = 1
    /\ last.result = "noresult"
    /\ last.selected = 2
    /\ last.calls = PassCap
    /\ last.oks = 1
    /\ ~last.scanned

\* C20: if a re-scan during Running returns an empty list, next_image
\* returns False without any display_image or sleep call, current_index
\* stays 0 and refresh_count is unchanged, the loop neither faults nor
\* terminates, and images are displayed again from the first iteration
\* whose re-scan is non-empty: that iteration selects the first image of
\* the new list and, when it processes, displays it.
C20_EmptyRescan ==
    [][(IterationStep /\ (last.result = "empty" \/ image_list' = <<>>)) =>
          /\ image_list # <<>> => (last'.scanned /\ last'.result = "empty")
          /\ last'.result = "empty" =>
                /\ last'.scanned
                /\ image_list' = <<>>
                /\ current_index = 0
                /\ current_index' = 0
                /\ refresh_count' = refresh_count
                /\ ~last'.displayed
                /\ ~last'.slept
                /\ display' = display
                /\ display_image_calls' = display_image_calls
                /\ pc' = "Running"
          /\ last.result = "empty" =>
                /\ last'.scanned
                /\ Completed(last'.result) =>
                      /\ image_list' = <<>> <=> last'.result = "empty"
                      /\ last'.result \in {"ok", "noresult"} =>
                            last'.selected = image_list'[1]
                      /\ last'.result = "ok" =>
                            /\ last'.displayed
                            /\ display_image_calls' = display_image_calls + 1
      ]_vars

\* A re-scan found the directory empty after images had been displayed.
C20_Witness ==
    /\ pc = "Running"
    /\ last.result = "empty"
    /\ last.scanned
    /\ image_list = <<>>
    /\ current_index = 0
    /\ refresh_count >= 1
    /\ display.refresh_count >= 2

\* Every display_image call the frame has made (the banner included) was
\* counted by the adapter: no push has failed.
NoPushFailed == display.refresh_count = display_image_calls

\* C21 as stated, for a non-zero full_clear_interval: in every state after
\* a successful initialize the adapter's refresh_count is at most the
\* frame's refresh_count + 1, with equality exactly when no display push
\* has failed.
C21_Original ==
    (init_result = "ok" /\ full_clear_interval # 0) =>
        /\ display.refresh_count <= refresh_count + 1
        /\ display.refresh_count = refresh_count + 1 <=> NoPushFailed

\* C21: in every state after a successful initialize the adapter's
\* refresh_count is at most the frame's refresh_count + 1 (the 1 is the
\* startup banner) and equality implies that no push has failed; while the
\* loop is running the frame has made one display call per counted cycle
\* plus the banner, whatever the calls returned, so equality holds exactly
\* when no push has failed.  Once the loop has been left by an interrupt or
\* an exception raised between the frame's increment and the push, the
\* frame's count is one ahead although no push has failed.
C21_CountersAgree ==
    init_result = "ok" =>
        /\ display.refresh_count <= refresh_count + 1
        /\ display.refresh_count = refresh_count + 1 => NoPushFailed
        /\ pc = "Running" =>
              /\ display_image_calls = refresh_count + 1
              /\ NoPushFailed => display.refresh_count = refresh_count + 1

\* A push failed in a cycle that went through: the frame counted the cycle
\* and advanced, the adapter did not count it.
C21_Witness ==
    /\ pc = "Running"
    /\ last.result = "ok"
    /\ last.displayed
    /\ refresh_count >= 1
    /\ display_image_calls = refresh_count + 1
    /\ display.refresh_count < refresh_count + 1
    /\ ~NoPushFailed

\* C22, for the runs in which no call of PictureFrame.initialize raises:
\* whenever the process has exited after display.initialize() succeeded,
\* display.cleanup() has run, the exit after an empty inventory included.
C22_CleanupBeforeExit ==
    (/\ pc \in {"Exited", "Stopped", "Failed"}
     /\ op.name = "initialize"
     /\ op.ret
     /\ init_result \in {"no_images", "ok"}) => cleanup_calls >= 1

====
